---- MODULE Spec2Model ----
(***************************************************************************)
(* LoRa MAC layer of the 2025 Communicator Badge (firmware/lib).           *)
(*                                                                         *)
(* The model follows one LoRaMAC object (lora_mac.py) over the radio       *)
(* driver (lora_hal.py) and a configuration record (config.py).  A call    *)
(* of send_data is a sequence of steps: the entry (NAV check, CAD, coin    *)
(* flip), one step per iteration of a listen loop, and the straight-line   *)
(* code between the loops.  Time is the value of time.ticks_ms() in        *)
(* milliseconds; it advances by the sleeps of the code and by the time     *)
(* the blocking radio operations take.                                     *)
(*                                                                         *)
(* Arithmetic.  The code computes int(x * 0.05), int(x * 0.15),            *)
(* int(x * 0.8), int(x * 1.2) and int(x * min(1.0 + k * 0.3, 2.5)) in      *)
(* floating point; for 0 <= x < 80000 and every k these equal the integer  *)
(* quotients used below (IEEE double precision).                           *)
(*                                                                         *)
(* Byte strings.  An application payload is opaque to the MAC: it is       *)
(* modelled by its length and an identity.  The RTS payload is the five    *)
(* bytes CA FE BA BE LL.                                                   *)
(***************************************************************************)
EXTENDS Integers, Sequences, FiniteSets, TLC

(***************************************************************************)
(* Bounds of the exploration.                                              *)
(***************************************************************************)
\* send_data calls per behaviour
MaxCalls == 2
\* radio anomalies per behaviour: a transmit timeout, a packet that is read and
\* ignored, an RTS frame cut short
MaxFaults == 1
\* largest consecutive_navs the NAV arithmetic is explored from
MaxNavs == 10

(***************************************************************************)
(* Program constants.                                                      *)
(***************************************************************************)
PKT_TYPE_RTS == 1
PKT_TYPE_DATA == 2

PHASE_IDLE == 0
PHASE_1_LISTEN == 1
PHASE_2_RTS == 2
PHASE_3_DATA == 3
PHASE_NAV == 4

PRIME_OFFSETS == <<5, 7, 11, 13, 17>>

\* _calculate_toa: base_ms and per_byte_ms
base_ms == 401
per_byte_ms == 37
\* the first polling interval of a listen loop, and the two slower ones
POLL_FAST == 11
POLL_SLOW == 23
POLL_SLOWEST == 41
\* send_packet gives up after 10 s; a CAD cycle takes ~5 ms
TX_TIMEOUT_MS == 10000
CAD_MS == 5

VARIABLES
    config,            \* MACConfig: phase2_probability (percent), backoff_window, difs_ms, use_cad
    constructed,       \* a LoRaMAC object exists
    now,               \* time.ticks_ms()
    phase,             \* self.phase
    nav_until,         \* self.nav_until
    consecutive_navs,  \* self.consecutive_navs
    stats,             \* self.stats
    pc,                \* where the running send_data call is: "idle" when none runs
    pending_data,      \* the payload of the running (or last) call: [id, len]
    priority,          \* the priority argument of the running (or last) call
    start,             \* start of the running listen loop
    poll_interval,     \* poll_interval of the running listen loop
    idle_count,        \* idle_count of the running listen loop
    ret,               \* what the last call returned: "none" before the first return
    why,               \* which return statement the last call left by
    ncalls,            \* send_data calls made so far
    faults,            \* radio anomalies so far
    pkt,               \* the last packet read_packet returned
    txlog,             \* frames handed to radio.send_packet during the running (or last) call
    ops,               \* cad / start_rx / send_packet calls of the running (or last) call
    radio,             \* the radio: its receive mode and the packet it holds with RxDone raised
    callback,          \* self._on_receive_callback: 0 for None, else the callback's identity
    registered,        \* the callbacks on_receive was called with so far, in order
    delivered,         \* the callback invocations so far, in order
    coin,              \* the recorded value of urandom.random() of the last coin flip, in
                       \* percent; -1 when none is recorded
    codec              \* a payload on its way through the framing code: the bytes built,
                       \* written to the radio, read back and decoded

vars == <<config, constructed, now, phase, nav_until, consecutive_navs, stats, pc,
          pending_data, priority, start, poll_interval, idle_count, ret, why,
          ncalls, faults, pkt, txlog, ops, radio, callback, registered, delivered, coin,
                       codec>>

Min(a, b) == IF a < b THEN a ELSE b

(***************************************************************************)
(* Entropy: urandom.randint(lo, hi) and urandom.random().                  *)
(*                                                                         *)
(* The state machine (Spec) explores every slot draw randint(0, W), and of  *)
(* the prime offset and of the wide draws (jitter, random NAV) the         *)
(* smallest value.  The NAV arithmetic (SpecNav) explores every prime      *)
(* offset and both ends of the wide draws.                                 *)
(***************************************************************************)
\* urandom.randint(lo, hi) over a small range
RandInt(lo, hi) == lo..hi

\* urandom.randint(lo, hi) over a wide range
RandWide(wide, lo, hi) == IF wide THEN {x \in lo..hi : x = lo \/ x = hi} ELSE {lo}

\* urandom.random() in [0,1), in percent
RandomPercent == {0, 50, 99}

\* PRIME_OFFSETS[urandom.randint(0, len(PRIME_OFFSETS) - 1)]
PrimeOffset(wide) ==
    {PRIME_OFFSETS[i + 1] : i \in IF wide THEN RandInt(0, Len(PRIME_OFFSETS) - 1) ELSE {0}}

(***************************************************************************)
(* config.py                                                               *)
(***************************************************************************)
MACConfig(p, w, d, c) ==
    [phase2_probability |-> p, backoff_window |-> w, difs_ms |-> d, use_cad |-> c]

\* the configurations the MAC is run with
Configs ==
    { MACConfig(10, 1, 100, TRUE),
      MACConfig(100, 0, 400, FALSE) }

(***************************************************************************)
(* lora_mac.py: timing                                                     *)
(***************************************************************************)
calculate_toa(payload_len) == base_ms + (payload_len * per_byte_ms)

rts_toa == calculate_toa(5)

phase1_duration_of(cfg) == cfg.backoff_window * cfg.difs_ms + rts_toa

phase1_duration == phase1_duration_of(config)

\* time.ticks_ms() at time t: the millisecond counter wraps at TICKS_PERIOD
TICKS_PERIOD == 2^30

ticks_ms(t) == t % TICKS_PERIOD

\* time.ticks_diff(a, b): the signed difference of two counter values
ticks_diff(a, b) ==
    ((a - b + (TICKS_PERIOD \div 2)) % TICKS_PERIOD) - (TICKS_PERIOD \div 2)

\* a NAV check that never holds the node back
in_nav_never(t) == FALSE

\* "if self.nav_until > time.ticks_ms(): return True", at time t
in_nav(t) == nav_until > ticks_ms(t)

\* "backoff = urandom.randint(0, self.w) * self.difs; backoff += prime_offset"
\* a backoff that waits one slot more than drawn
backoff_ms_extra_slot(cfg, n, prime_offset) == (n + 1) * cfg.difs_ms + prime_offset

\* "backoff = urandom.randint(0, self.w) * self.difs; backoff += prime_offset"
backoff_ms(cfg, n, prime_offset) == n * cfg.difs_ms + prime_offset

\* the backoffs slept before the RTS and before the DATA frame
Backoffs(wide, cfg) ==
    {backoff_ms(cfg, n, p) : n \in RandInt(0, cfg.backoff_window), p \in PrimeOffset(wide)}

\* a multiplier that is never capped
backoff_multiplier10_uncapped(k) == 10 + (k * 3)

\* min(1.0 + (self.consecutive_navs * 0.3), 2.5), in tenths
backoff_multiplier10(k) == Min(10 + (k * 3), 25)

\* "if self.consecutive_navs > 0: nav_duration = int(nav_duration * backoff_multiplier)"
exponential_backoff(duration, k) ==
    IF k > 0 THEN (duration * backoff_multiplier10(k)) \div 10 ELSE duration

\* a NAV that forgets the announced frame's air time
nav_base_no_toa(cfg, data_len) ==
    phase1_duration_of(cfg) + (cfg.backoff_window * cfg.difs_ms)

\* "nav_duration = self.phase1_duration + (self.w * self.difs) + data_toa"
nav_base(cfg, data_len) ==
    phase1_duration_of(cfg) + (cfg.backoff_window * cfg.difs_ms) + calculate_toa(data_len)

\* a jitter draw that starts at zero
jitter_lo_zero(d) == 0

\* the bounds of the jitter draw of _enter_nav_from_rts
jitter_lo(d) == (d * 5) \div 100
jitter_hi(d) == (d * 15) \div 100

\* nav_duration of _enter_nav_from_rts for the draws prime_offset and jitter
nav_duration_from_rts(cfg, data_len, k, prime_offset, jitter) ==
    exponential_backoff(nav_base(cfg, data_len) + prime_offset + jitter, k)

\* nav_duration of _enter_nav_random for the draws d and prime_offset
nav_duration_random(k, d, prime_offset) == exponential_backoff(d + prime_offset, k)

\* defer_duration of _defer_random for the draws d and prime_offset
defer_duration(k, d, prime_offset) == exponential_backoff(d + prime_offset, k)

\* the nav_duration values _enter_nav_from_rts can compute
nav_from_rts(wide, cfg, data_len, k) ==
    UNION { { nav_duration_from_rts(cfg, data_len, k, p, j) :
                j \in RandWide(wide, jitter_lo(nav_base(cfg, data_len) + p),
                                     jitter_hi(nav_base(cfg, data_len) + p)) } :
            p \in PrimeOffset(wide) }

\* the nav_duration values _enter_nav_random can compute
nav_random(wide, k) ==
    LET max_toa == calculate_toa(255) IN
    { nav_duration_random(k, d, p) :
        d \in RandWide(wide, (max_toa * 8) \div 10, (max_toa * 12) \div 10),
        p \in PrimeOffset(wide) }

\* a deferral drawn from below the Phase 1 duration
defer_random_short(wide, cfg, k) ==
    { defer_duration(k, d, p) :
        d \in RandWide(wide, 0, phase1_duration_of(cfg)),
        p \in PrimeOffset(wide) }

\* the defer_duration values _defer_random can compute
defer_random(wide, cfg, k) ==
    { defer_duration(k, d, p) :
        d \in RandWide(wide, phase1_duration_of(cfg), phase1_duration_of(cfg) * 3),
        p \in PrimeOffset(wide) }

(***************************************************************************)
(* lora_hal.py: what the radio can answer                                  *)
(***************************************************************************)
\* a radio anomaly may still happen
may_fault == faults < MaxFaults

\* send_packet(data, pkt_type): TxDone after the air time, or the 10 s timeout
send_packet(payload_len) ==
    { [ok |-> TRUE, ms |-> calculate_toa(payload_len)] }
    \cup { r \in { [ok |-> FALSE, ms |-> TX_TIMEOUT_MS] } : may_fault }

\* cad(): activity detected or not, after a CAD cycle
cad ==
    { [detected |-> TRUE, ms |-> CAD_MS],
      [detected |-> FALSE, ms |-> CAD_MS] }

\* read_packet(): None (payload_len == 0), or the first byte as the type and the
\* rest as the payload; ll is payload[4] where the payload has five bytes
NoPacket == [type |-> 0, len |-> 0, ll |-> 0, crc |-> TRUE]

RtsPacket(l) == [type |-> PKT_TYPE_RTS, len |-> 5, ll |-> l, crc |-> TRUE]

\* the RTS frames heard by the state machine, and by the NAV arithmetic
RxRts == { RtsPacket(16) }
RxRtsAll == { RtsPacket(l) : l \in 0..255 }

RxRtsShort == { [type |-> PKT_TYPE_RTS, len |-> 2, ll |-> 0, crc |-> TRUE] }

RxData == { [type |-> PKT_TYPE_DATA, len |-> 3, ll |-> 0, crc |-> TRUE] }

\* frames the radio received with a CRC error: RxDone is raised and the buffer holds
\* the bytes; read_packet reads the buffer status and the buffer, never the CRC flag
RxCorruptRts == { [type |-> PKT_TYPE_RTS, len |-> 5, ll |-> 200, crc |-> FALSE] }
RxCorruptData == { [type |-> PKT_TYPE_DATA, len |-> 3, ll |-> 0, crc |-> FALSE] }

\* "rssi = -80; snr = 8.0": what read_packet reports for every packet
RSSI == -80
SNR == 8

RxIgnored == { NoPacket, [type |-> 3, len |-> 1, ll |-> 0, crc |-> TRUE] }

\* rx_done() can be true: a packet is ready at the first poll of a listen window
\* and at the poll after a packet
rx_ready == idle_count = 0

\* the radio after _configure, after cad() and after send_packet(): not receiving,
\* interrupts cleared
RadioOff == [rx |-> "off", held |-> NoPacket]

\* the radio after start_rx(timeout_ms): receiving for a while (timeout_ms > 0) or
\* for good (timeout_ms == 0), interrupts cleared
RadioRx(timeout_ms) ==
    [rx |-> IF timeout_ms = 0 THEN "continuous" ELSE "timed", held |-> NoPacket]

(***************************************************************************)
(* LoRaMAC.__init__                                                        *)
(***************************************************************************)
ZeroStats ==
    [tx_data |-> 0, tx_rts |-> 0, rx_data |-> 0, rx_rts |-> 0,
     nav_count |-> 0, cad_detected |-> 0, backoff_count |-> 0]

\* a counter that is increased twice for one event
Bump_twice(s, f) == [s EXCEPT ![f] = @ + 2]

\* "self.stats[f] += 1"
Bump(s, f) == [s EXCEPT ![f] = @ + 1]

NoPayload == [id |-> 0, len |-> 0]

NoConfig == MACConfig(0, 0, 0, FALSE)

\* no payload is on its way through the framing code
NoCodec == [stage |-> "none", data |-> <<>>, bytes |-> <<>>, type |-> 0, data_len |-> 0]

\* the fields no call has touched yet
no_call ==
    /\ pc = "idle"
    /\ pending_data = NoPayload
    /\ priority = "normal"
    /\ start = 0
    /\ poll_interval = POLL_FAST
    /\ idle_count = 0
    /\ ret = "none"
    /\ why = "none"
    /\ ncalls = 0
    /\ faults = 0
    /\ pkt = NoPacket
    /\ txlog = <<>>
    /\ ops = <<>>
    /\ radio = RadioOff
    /\ callback = 0
    /\ registered = <<>>
    /\ delivered = <<>>
    /\ coin = -1
    /\ codec = NoCodec

\* the state a constructed MAC starts in
mac_init(cfg) ==
    /\ config = cfg
    /\ constructed = TRUE
    /\ phase = PHASE_IDLE
    /\ nav_until = 0
    /\ stats = ZeroStats
    /\ consecutive_navs = 0
    /\ no_call

Init ==
    /\ now = 0
    /\ \E cfg \in Configs : mac_init(cfg)

(***************************************************************************)
(* send_data: pieces of straight-line code                                 *)
(***************************************************************************)
\* the arguments send_data is called with
CallArgs ==
    { [len |-> 2, priority |-> "normal"],
      [len |-> 255, priority |-> "high"],
      [len |-> 256, priority |-> "normal"] }

Frame(tag, len, ll, id, ok, t) ==
    [tag |-> tag, len |-> len, ll |-> ll, id |-> id, ok |-> ok, t |-> t, nav |-> nav_until]

\* a return statement of send_data, or an exception leaving it
Return(value, reason) ==
    /\ pc' = "idle"
    /\ ret' = value
    /\ why' = reason

\* an arming that forgets to count the deferral
arm_nav_no_count(t, ds) ==
    /\ \E d \in ds : nav_until' = ticks_ms(t) + d
    /\ consecutive_navs' = consecutive_navs
    /\ phase' = PHASE_NAV

\* "self.consecutive_navs += 1; self.nav_until = time.ticks_ms() + nav_duration;
\*  self.phase = PHASE_NAV", at time t for one of the durations ds
arm_nav(t, ds) ==
    /\ \E d \in ds : nav_until' = ticks_ms(t) + d
    /\ consecutive_navs' = consecutive_navs + 1
    /\ phase' = PHASE_NAV

enter_nav_from_rts(wide, t, st, rts_packet) ==
    /\ arm_nav(t, nav_from_rts(wide, config, rts_packet.ll, consecutive_navs))
    /\ stats' = Bump(st, "nav_count")

enter_nav_random(wide, t, st) ==
    /\ arm_nav(t, nav_random(wide, consecutive_navs))
    /\ stats' = Bump(st, "nav_count")

do_defer_random(wide, t, st) ==
    /\ arm_nav(t, defer_random(wide, config, consecutive_navs))
    /\ stats' = st

\* "listen_duration = self.phase1_duration"
listen_duration == phase1_duration

\* bytearray([0xCA, 0xFE, 0xBA, 0xBE, data_len]): the element is stored as one
\* byte; a value above 255 is either cut to its low byte or refused (ValueError,
\* written -1 here), depending on the runtime
rts_length_bytes(data_len) ==
    IF data_len <= 255 THEN {data_len} ELSE {data_len % 256, -1}

\* _phase2_send_rts up to its listen loop, entered at time t with statistics st,
\* the frames sent so far, the radio operations so far and the radio in state rd
phase2_send_rts(wide, t, st, d, log, o, rd) ==
    \E backoff \in Backoffs(wide, config), ll \in rts_length_bytes(d.len) :
        /\ phase' = PHASE_2_RTS
        /\ UNCHANGED <<nav_until, consecutive_navs>>
        /\ IF ll < 0
           THEN /\ now' = t + backoff
                /\ stats' = Bump(st, "backoff_count")
                /\ txlog' = log
                /\ ops' = o
                /\ radio' = rd
                /\ Return("Error", "ValueError")
                /\ UNCHANGED <<start, poll_interval, idle_count, faults>>
           ELSE \E tx \in send_packet(5) :
                /\ now' = t + backoff + tx.ms
                /\ stats' = Bump(Bump(st, "backoff_count"), "tx_rts")
                /\ txlog' = Append(log, Frame(PKT_TYPE_RTS, 5, ll, 0, tx.ok, t + backoff))
                /\ ops' = o \o <<"send_packet", "start_rx">>
                /\ radio' = RadioRx(listen_duration)
                /\ faults' = IF tx.ok THEN faults ELSE faults + 1
                /\ pc' = "phase2"
                /\ start' = now'
                /\ poll_interval' = POLL_FAST
                /\ idle_count' = 0
                /\ UNCHANGED <<ret, why>>

\* a Phase 3 that reports False after sending
phase3_returns_false(wide, t, st, d, log, o) ==
    \E backoff \in Backoffs(wide, config), tx \in send_packet(d.len) :
        /\ now' = t + backoff + tx.ms
        /\ stats' = Bump(Bump(st, "backoff_count"), "tx_data")
        /\ txlog' = Append(log, Frame(PKT_TYPE_DATA, d.len, 0, d.id, tx.ok, t + backoff))
        /\ ops' = Append(o, "send_packet")
        /\ radio' = RadioOff
        /\ faults' = IF tx.ok THEN faults ELSE faults + 1
        /\ consecutive_navs' = 0
        /\ phase' = PHASE_IDLE
        /\ Return("Deferred", "sent")
        /\ UNCHANGED <<nav_until, start, poll_interval, idle_count>>

\* a Phase 3 that keeps the deferral counter
phase3_keeps_counter(wide, t, st, d, log, o) ==
    \E backoff \in Backoffs(wide, config), tx \in send_packet(d.len) :
        /\ now' = t + backoff + tx.ms
        /\ stats' = Bump(Bump(st, "backoff_count"), "tx_data")
        /\ txlog' = Append(log, Frame(PKT_TYPE_DATA, d.len, 0, d.id, tx.ok, t + backoff))
        /\ ops' = Append(o, "send_packet")
        /\ radio' = RadioOff
        /\ faults' = IF tx.ok THEN faults ELSE faults + 1
        /\ consecutive_navs' = consecutive_navs
        /\ phase' = PHASE_IDLE
        /\ Return("Sent", "sent")
        /\ UNCHANGED <<nav_until, start, poll_interval, idle_count>>

\* _phase3_send_data, entered at time t
phase3_send_data(wide, t, st, d, log, o) ==
    \E backoff \in Backoffs(wide, config), tx \in send_packet(d.len) :
        /\ now' = t + backoff + tx.ms
        /\ stats' = Bump(Bump(st, "backoff_count"), "tx_data")
        /\ txlog' = Append(log, Frame(PKT_TYPE_DATA, d.len, 0, d.id, tx.ok, t + backoff))
        /\ ops' = Append(o, "send_packet")
        /\ radio' = RadioOff
        /\ faults' = IF tx.ok THEN faults ELSE faults + 1
        /\ consecutive_navs' = 0
        /\ phase' = PHASE_IDLE
        /\ Return("Sent", "sent")
        /\ UNCHANGED <<nav_until, start, poll_interval, idle_count>>

(***************************************************************************)
(* send_data: the entry                                                    *)
(***************************************************************************)
Idle == constructed /\ pc = "idle"

\* a call that takes up the payload of the call before it when there is one
call_keeps_pending(a) ==
    /\ Idle
    /\ ncalls < MaxCalls
    /\ ncalls' = ncalls + 1
    /\ pending_data' = IF pending_data = NoPayload
                       THEN [id |-> ncalls + 1, len |-> a.len]
                       ELSE pending_data
    /\ priority' = a.priority
    /\ UNCHANGED <<config, constructed, callback, registered>>

\* what every call does on entry: bind the arguments
call(a) ==
    /\ Idle
    /\ ncalls < MaxCalls
    /\ ncalls' = ncalls + 1
    /\ pending_data' = [id |-> ncalls + 1, len |-> a.len]
    /\ priority' = a.priority
    /\ UNCHANGED <<config, constructed, callback, registered>>

\* a call in NAV that pushes the deadline out by one listen window
SendInNav_extends ==
    \E a \in CallArgs :
        /\ call(a)
        /\ in_nav(now)
        /\ Return("Deferred", "in_nav")
        /\ txlog' = <<>>
        /\ ops' = <<>>
        /\ nav_until' = nav_until + phase1_duration
        /\ UNCHANGED <<now, phase, consecutive_navs, stats, start,
                       poll_interval, idle_count, faults, pkt, radio, delivered, coin,
                       codec>>

\* a call in NAV that counts as one more deferral
SendInNav_counts ==
    \E a \in CallArgs :
        /\ call(a)
        /\ in_nav(now)
        /\ Return("Deferred", "in_nav")
        /\ txlog' = <<>>
        /\ ops' = <<>>
        /\ consecutive_navs' = consecutive_navs + 1
        /\ UNCHANGED <<now, phase, nav_until, stats, start,
                       poll_interval, idle_count, faults, pkt, radio, delivered, coin,
                       codec>>

\* "if self._in_nav(): return False"
SendInNav ==
    \E a \in CallArgs :
        /\ call(a)
        /\ in_nav(now)
        /\ Return("Deferred", "in_nav")
        /\ txlog' = <<>>
        /\ ops' = <<>>
        /\ UNCHANGED <<now, phase, nav_until, consecutive_navs, stats, start,
                       poll_interval, idle_count, faults, pkt, radio, delivered, coin,
                       codec>>

\* "if self.config.use_cad and self.radio.cad(): ... self._defer_random(); return False"
SendCadDefer ==
    \E a \in CallArgs, c \in cad :
        /\ call(a)
        /\ ~in_nav(now)
        /\ config.use_cad /\ c.detected
        /\ now' = now + c.ms
        /\ do_defer_random(FALSE, now', Bump(stats, "cad_detected"))
        /\ Return("Deferred", "cad")
        /\ txlog' = <<>>
        /\ ops' = <<"cad">>
        /\ radio' = RadioOff
        /\ UNCHANGED <<start, poll_interval, idle_count, faults, pkt, delivered, coin,
                       codec>>

\* the time CAD took when the call goes on: none without use_cad
cad_clear == IF config.use_cad THEN {c.ms : c \in {x \in cad : ~x.detected}} ELSE {0}

\* the radio operations and the radio when the call goes on
cad_ops(cfg) == IF cfg.use_cad THEN <<"cad">> ELSE <<>>

cad_radio(cfg, rd) == IF cfg.use_cad THEN RadioOff ELSE rd

\* the skip of a coin that also skips when the draw equals P
skip_listen_inclusive(prio, r) == prio = "high" \/ r <= config.phase2_probability

\* the coin flip of a call: "priority == 'high' or urandom.random() < self.p"
skip_listen(prio, r) == prio = "high" \/ r < config.phase2_probability

\* a Phase 2 that a high priority enters whatever NAV says
send_phase2_high_ignores_nav(wide, a, ms, r) ==
    /\ call(a)
    /\ ~in_nav(now) \/ a.priority = "high"
    /\ skip_listen(a.priority, r)
    /\ phase2_send_rts(wide, now + ms, stats, pending_data', <<>>, cad_ops(config),
                       cad_radio(config, radio))
    /\ UNCHANGED <<pkt, delivered>>

\* the coin selects Phase 2, r being the value of urandom.random()
send_phase2(wide, a, ms, r) ==
    /\ call(a)
    /\ ~in_nav(now)
    /\ skip_listen(a.priority, r)
    /\ phase2_send_rts(wide, now + ms, stats, pending_data', <<>>, cad_ops(config),
                       cad_radio(config, radio))
    /\ UNCHANGED <<pkt, delivered>>

\* a Phase 1 that starts without writing self.phase
send_phase1_keeps_phase(a, ms, r) ==
    /\ call(a)
    /\ ~in_nav(now)
    /\ ~skip_listen(a.priority, r)
    /\ phase' = phase
    /\ now' = now + ms
    /\ start' = now'
    /\ poll_interval' = POLL_FAST
    /\ idle_count' = 0
    /\ pc' = "phase1"
    /\ txlog' = <<>>
    /\ ops' = Append(cad_ops(config), "start_rx")
    /\ radio' = RadioRx(phase1_duration)
    /\ UNCHANGED <<nav_until, consecutive_navs, stats, ret, why, faults, pkt, delivered>>

\* the coin selects Phase 1: _phase1_listen_rts up to its loop
send_phase1(a, ms, r) ==
    /\ call(a)
    /\ ~in_nav(now)
    /\ ~skip_listen(a.priority, r)
    /\ phase' = PHASE_1_LISTEN
    /\ now' = now + ms
    /\ start' = now'
    /\ poll_interval' = POLL_FAST
    /\ idle_count' = 0
    /\ pc' = "phase1"
    /\ txlog' = <<>>
    /\ ops' = Append(cad_ops(config), "start_rx")
    /\ radio' = RadioRx(phase1_duration)
    /\ UNCHANGED <<nav_until, consecutive_navs, stats, ret, why, faults, pkt, delivered>>

SendPhase2 ==
    \E a \in CallArgs, ms \in cad_clear, r \in RandomPercent :
        send_phase2(FALSE, a, ms, r) /\ UNCHANGED <<coin, codec>>

SendPhase1 ==
    \E a \in CallArgs, ms \in cad_clear, r \in RandomPercent :
        send_phase1(a, ms, r) /\ UNCHANGED <<coin, codec>>

(***************************************************************************)
(* The listen loops of _phase1_listen_rts and _phase2_send_rts             *)
(***************************************************************************)
\* "while time.ticks_diff(time.ticks_ms(), start) < self.phase1_duration"
listening(p) ==
    /\ constructed
    /\ pc = p
    /\ ticks_diff(ticks_ms(now), ticks_ms(start)) < listen_duration

in_call == UNCHANGED <<config, constructed, pending_data, priority, ncalls, callback, registered, coin,
                       codec>>

\* an RTS is read: rx_rts, _enter_nav_from_rts, return False
listen_rts(p, frames) ==
    \E rx \in frames :
        /\ listening(p) /\ rx_ready
        /\ pkt' = rx
        /\ enter_nav_from_rts(FALSE, now, Bump(stats, "rx_rts"), rx)
        /\ Return("Deferred", "rts")
        /\ in_call
        /\ UNCHANGED <<now, start, poll_interval, idle_count, faults, txlog, ops, radio,
                       delivered>>

\* an RTS with fewer than five payload bytes is read: rts_packet['payload'][4]
\* raises IndexError out of send_data
listen_rts_short(p) ==
    \E rx \in RxRtsShort :
        /\ listening(p) /\ rx_ready
        /\ may_fault
        /\ faults' = faults + 1
        /\ pkt' = rx
        /\ stats' = Bump(stats, "rx_rts")
        /\ Return("Error", "IndexError")
        /\ in_call
        /\ UNCHANGED <<now, phase, nav_until, consecutive_navs, start, poll_interval,
                       idle_count, txlog, ops, radio, delivered>>

\* the call cb(pkt['payload'], pkt['rssi'], pkt['snr']) for a packet read_packet returned
Invocation(cb, rx) == [cb |-> cb, payload |-> rx, rssi |-> RSSI, snr |-> SNR]

\* "if self._on_receive_callback: self._on_receive_callback(pkt['payload'], ...)"
\* a delivery that calls the callback twice
on_receive_callback_twice(rx) ==
    IF callback # 0
    THEN delivered \o <<Invocation(callback, rx), Invocation(callback, rx)>>
    ELSE delivered

on_receive_callback(rx) ==
    IF callback # 0 THEN Append(delivered, Invocation(callback, rx)) ELSE delivered

\* a DATA frame is read: rx_data, the callback, _enter_nav_random, return False
listen_data(p, frames) ==
    \E rx \in frames :
        /\ listening(p) /\ rx_ready
        /\ pkt' = rx
        /\ delivered' = on_receive_callback(rx)
        /\ enter_nav_random(FALSE, now, Bump(stats, "rx_data"))
        /\ Return("Deferred", "data")
        /\ in_call
        /\ UNCHANGED <<now, start, poll_interval, idle_count, faults, txlog, ops, radio>>

\* rx_done() but nothing to act on (None, or another type): fast polling again
listen_ignored(p) ==
    \E rx \in RxIgnored :
        /\ listening(p) /\ rx_ready
        /\ may_fault
        /\ faults' = faults + 1
        /\ pkt' = rx
        /\ poll_interval' = POLL_FAST
        /\ idle_count' = 0
        /\ now' = now + poll_interval'
        /\ in_call
        /\ UNCHANGED <<phase, nav_until, consecutive_navs, stats, pc, start, ret, why, txlog,
                       ops, radio, delivered>>

\* not rx_done(): the polling slows down
listen_idle(p) ==
    /\ listening(p)
    /\ idle_count' = idle_count + 1
    /\ poll_interval' = IF idle_count' > 7 THEN POLL_SLOWEST
                        ELSE IF idle_count' > 3 THEN POLL_SLOW
                        ELSE poll_interval
    /\ now' = now + poll_interval'
    /\ in_call
    /\ UNCHANGED <<phase, nav_until, consecutive_navs, stats, pc, start, ret, why,
                   faults, pkt, txlog, ops, radio, delivered>>

\* a listen loop that may be left before its time is up
timed_out_early(p) ==
    /\ constructed
    /\ pc = p

\* the loop's condition is false
timed_out(p) ==
    /\ constructed
    /\ pc = p
    /\ ~(ticks_diff(ticks_ms(now), ticks_ms(start)) < listen_duration)

Phase1Rts == listen_rts("phase1", RxRts)
Phase1RtsShort == listen_rts_short("phase1")
Phase1Data == listen_data("phase1", RxData)
Phase1Ignored == listen_ignored("phase1")
Phase1Idle == listen_idle("phase1")

\* a Phase 1 that goes on to the data frame without announcing it
Phase1Timeout_no_rts ==
    /\ timed_out("phase1")
    /\ phase3_send_data(FALSE, now, stats, pending_data, txlog, ops)
    /\ in_call
    /\ UNCHANGED <<pkt, delivered>>

\* "return self._phase2_send_rts(pending_data)"
Phase1Timeout ==
    /\ timed_out("phase1")
    /\ phase2_send_rts(FALSE, now, stats, pending_data, txlog, ops, radio)
    /\ in_call
    /\ UNCHANGED <<pkt, delivered>>

Phase2Rts == listen_rts("phase2", RxRts)
Phase2RtsShort == listen_rts_short("phase2")
Phase2Data == listen_data("phase2", RxData)
Phase2Ignored == listen_ignored("phase2")
Phase2Idle == listen_idle("phase2")

\* "return self._phase3_send_data(pending_data)"
Phase2Timeout ==
    /\ timed_out("phase2")
    /\ phase3_send_data(FALSE, now, stats, pending_data, txlog, ops)
    /\ in_call
    /\ UNCHANGED <<pkt, delivered>>

(***************************************************************************)
(* Between calls                                                           *)
(***************************************************************************)
\* the application waits until the NAV deadline
\* a NAV whose expiry clears the deferral counter
WaitNav_resets_counter ==
    /\ Idle
    /\ in_nav(now)
    /\ now' = nav_until
    /\ consecutive_navs' = 0
    /\ UNCHANGED <<config, constructed, phase, nav_until, stats, pc,
                   pending_data, priority, start, poll_interval, idle_count, ret, why,
                   ncalls, faults, pkt, txlog, ops, radio, callback, registered, delivered, coin,
                       codec>>

WaitNav ==
    /\ Idle
    /\ in_nav(now)
    /\ now' = nav_until
    /\ UNCHANGED <<config, constructed, phase, nav_until, consecutive_navs, stats, pc,
                   pending_data, priority, start, poll_interval, idle_count, ret, why,
                   ncalls, faults, pkt, txlog, ops, radio, callback, registered, delivered, coin,
                       codec>>

Next ==
    \/ SendInNav \/ SendCadDefer \/ SendPhase2 \/ SendPhase1
    \/ Phase1Rts \/ Phase1RtsShort \/ Phase1Data \/ Phase1Ignored \/ Phase1Idle
    \/ Phase1Timeout
    \/ Phase2Rts \/ Phase2RtsShort \/ Phase2Data \/ Phase2Ignored \/ Phase2Idle
    \/ Phase2Timeout
    \/ WaitNav

Spec == Init /\ [][Next]_vars

(***************************************************************************)
(* The NAV arithmetic on its own: the three arming functions applied to    *)
(* every RTS length byte, every consecutive_navs up to MaxNavs, every      *)
(* prime offset and both ends of the wide draws.                           *)
(***************************************************************************)
\* the configurations of the NAV arithmetic: for_testing, W = 0, and the
\* default of MACConfig (for_dense_deployment up to 50 nodes)
NavConfigs ==
    { MACConfig(10, 1, 100, TRUE),
      MACConfig(100, 0, 400, FALSE),
      MACConfig(10, 7, 400, TRUE) }

\* a call that has just read one of the packets in its Phase 1 loop, or (NoPacket)
\* a MAC about to be called, at one of the times and after one of the numbers of
\* deferrals navs
nav_init(times, packets, navs) ==
    /\ now \in times
    /\ config \in NavConfigs
    /\ constructed = TRUE
    /\ consecutive_navs \in navs
    /\ nav_until = 0
    /\ stats = ZeroStats
    /\ pkt \in packets
    /\ phase = IF pkt = NoPacket THEN PHASE_IDLE ELSE PHASE_1_LISTEN
    /\ pc = IF pkt = NoPacket THEN "idle" ELSE "phase1"
    /\ ncalls = IF pkt = NoPacket THEN 0 ELSE 1
    /\ pending_data = IF pkt = NoPacket THEN NoPayload ELSE [id |-> 1, len |-> 2]
    /\ priority = "normal"
    /\ start = now
    /\ poll_interval = POLL_FAST
    /\ idle_count = 0
    /\ ret = "none"
    /\ why = "none"
    /\ faults = 0
    /\ txlog = <<>>
    /\ ops = IF pkt = NoPacket THEN <<>> ELSE Append(cad_ops(config), "start_rx")
    /\ radio = IF pkt = NoPacket THEN RadioOff ELSE RadioRx(phase1_duration)
    /\ callback = 0
    /\ registered = <<>>
    /\ delivered = <<>>
    /\ coin = -1
    /\ codec = NoCodec

InitNav == nav_init({0, 5000}, RxRtsAll \cup RxData \cup {NoPacket}, 0..MaxNavs)

NavFromRts ==
    /\ pc = "phase1" /\ pkt.type = PKT_TYPE_RTS
    /\ enter_nav_from_rts(TRUE, now, Bump(stats, "rx_rts"), pkt)
    /\ Return("Deferred", "rts")
    /\ in_call
    /\ UNCHANGED <<now, start, poll_interval, idle_count, faults, txlog, pkt, ops, radio,
                   delivered>>

NavRandom ==
    /\ pc = "phase1" /\ pkt.type = PKT_TYPE_DATA
    /\ enter_nav_random(TRUE, now, Bump(stats, "rx_data"))
    /\ delivered' = on_receive_callback(pkt)
    /\ Return("Deferred", "data")
    /\ in_call
    /\ UNCHANGED <<now, start, poll_interval, idle_count, faults, txlog, pkt, ops, radio>>

NavDefer ==
    /\ call([len |-> 2, priority |-> "normal"])
    /\ ~in_nav(now)
    /\ config.use_cad
    /\ do_defer_random(TRUE, now, Bump(stats, "cad_detected"))
    /\ Return("Deferred", "cad")
    /\ ops' = <<"cad">>
    /\ radio' = RadioOff
    /\ UNCHANGED <<now, start, poll_interval, idle_count, faults, txlog, pkt, delivered,
                   coin,
                       codec>>

NextNav == NavFromRts \/ NavRandom \/ NavDefer

SpecNav == InitNav /\ [][NextNav]_vars

(***************************************************************************)
(* NAV across the wrap of the tick counter: NAV is armed at tick values    *)
(* far from the wrap point and shortly before it, and time goes on.        *)
(***************************************************************************)
\* the times NAV is armed at
WrapStarts == {TICKS_PERIOD - 20000, TICKS_PERIOD - 300, TICKS_PERIOD - 1}

InitWrap == nav_init(WrapStarts, RxRts \cup RxData \cup {NoPacket}, {0, 1})

\* NAV has been armed by the call that returned last
armed == pc = "idle" /\ ncalls > 0 /\ why \in {"rts", "data", "cad"}

\* the time at which the NAV armed at time start runs out
nav_deadline == start + (nav_until - ticks_ms(start))

\* time passes while NAV is armed: up to the end of NAV and past it, up to the wrap
\* of the counter and past it
Elapse ==
    \E t \in {nav_deadline - 1, nav_deadline, nav_deadline + 1000,
              TICKS_PERIOD - 1, TICKS_PERIOD, TICKS_PERIOD + 1000} :
        /\ armed
        /\ t > now
        /\ now' = t
        /\ UNCHANGED <<config, constructed, phase, nav_until, consecutive_navs, stats, pc,
                       pending_data, priority, start, poll_interval, idle_count, ret, why,
                       ncalls, faults, pkt, txlog, ops, radio, callback, registered, delivered, coin,
                       codec>>

\* the first call of a MAC is deferred by CAD
NavDeferFirst == ncalls = 0 /\ NavDefer

NextWrap == NavFromRts \/ NavRandom \/ NavDeferFirst \/ Elapse

SpecWrap == InitWrap /\ [][NextWrap]_vars

(***************************************************************************)
(* Construction: a MACConfig from keyword arguments, then LoRaMAC           *)
(***************************************************************************)
\* the keyword arguments MACConfig is built with, the defaults among them
AnyConfigs ==
    { MACConfig(p, w, d, c) :
        p \in {-10, 0, 5, 10, 100, 150},
        w \in {-1, 0, 1, 7},
        d \in {-400, 0, 100, 400},
        c \in BOOLEAN }

InitConfig ==
    /\ now = 0
    /\ config = NoConfig
    /\ constructed = FALSE
    /\ phase = PHASE_IDLE
    /\ nav_until = 0
    /\ stats = ZeroStats
    /\ consecutive_navs = 0
    /\ no_call

\* MACConfig.__init__ keeps what it is given; LoRaMAC.__init__ copies it and
\* computes rts_toa and phase1_duration
New ==
    \E cfg \in AnyConfigs :
        /\ ~constructed
        /\ config' = cfg
        /\ constructed' = TRUE
        /\ phase' = PHASE_IDLE
        /\ nav_until' = 0
        /\ stats' = ZeroStats
        /\ consecutive_navs' = 0
        /\ UNCHANGED <<now, pc, pending_data, priority, start, poll_interval, idle_count,
                       ret, why, ncalls, faults, pkt, txlog, ops, radio, callback, registered, delivered, coin,
                       codec>>

NextConfig == New

SpecConfig == InitConfig /\ [][NextConfig]_vars

(***************************************************************************)
(* The application around the MAC (examples/simple_chat.py): it registers  *)
(* a callback, starts continuous receive, sends, and reads the statistics; *)
(* meanwhile the radio decodes what is on the air.                         *)
(***************************************************************************)
\* the fields of the MAC and of the running call that the operations below leave alone
mac_unchanged ==
    UNCHANGED <<config, constructed, now, phase, nav_until, consecutive_navs, stats, pc,
                pending_data, priority, start, poll_interval, idle_count, ret, why,
                ncalls, faults, pkt, txlog, ops, coin,
                       codec>>

\* the callbacks an application registers
Callbacks == {1, 2}

\* an on_receive that keeps the callback it has
on_receive_keeps_first(c) ==
    /\ callback' = IF callback = 0 THEN c ELSE callback
    /\ registered' = Append(registered, c)

\* on_receive(callback): "self._on_receive_callback = callback"
on_receive(c) ==
    /\ callback' = c
    /\ registered' = Append(registered, c)

OnReceive ==
    /\ Idle
    /\ callback = 0
    /\ on_receive(1)
    /\ mac_unchanged
    /\ UNCHANGED <<radio, delivered>>

\* start_listening(): "self.radio.start_rx(timeout_ms=0)", called when the radio is
\* not in continuous receive already
StartListening ==
    /\ Idle
    /\ radio.rx # "continuous"
    /\ radio' = RadioRx(0)
    /\ mac_unchanged
    /\ UNCHANGED <<callback, registered, delivered>>

\* get_stats(): "return self.stats.copy()" writes no field
GetStats ==
    /\ Idle
    /\ mac_unchanged
    /\ UNCHANGED <<radio, callback, registered, delivered>>

\* print_stats() with the counters cleared after the dump
PrintStats_resets ==
    /\ Idle
    /\ stats' = ZeroStats
    /\ UNCHANGED <<config, constructed, now, phase, nav_until, consecutive_navs, pc,
                   pending_data, priority, start, poll_interval, idle_count, ret, why,
                   ncalls, faults, pkt, txlog, ops, coin, codec>>
    /\ UNCHANGED <<radio, callback, registered, delivered>>

\* print_stats(): reads self.stats for its print() calls and for "efficiency", which
\* it computes only "if self.stats['tx_data'] > 0"; it writes no field
PrintStats ==
    /\ Idle
    /\ mac_unchanged
    /\ UNCHANGED <<radio, callback, registered, delivered>>

\* the radio is in receive mode: continuous, or a listen window that is still open
receiving ==
    \/ radio.rx = "continuous"
    \/ /\ radio.rx = "timed"
       /\ ticks_diff(ticks_ms(now), ticks_ms(start)) < listen_duration

\* while no call runs the radio decodes a DATA frame: it raises RxDone and holds the
\* packet until read_packet() or until a command clears the interrupts
RadioDecode ==
    \E rx \in RxData :
        /\ Idle
        /\ receiving
        /\ radio.held = NoPacket
        /\ radio' = [radio EXCEPT !.held = rx]
        /\ mac_unchanged
        /\ UNCHANGED <<callback, registered, delivered>>

\* the calls of the application and the frames of other nodes; the radio anomalies
\* of the listen windows are explored by Spec
NextApp ==
    \/ SendInNav \/ SendCadDefer \/ SendPhase2 \/ SendPhase1
    \/ Phase1Rts \/ Phase1Data \/ Phase1Idle \/ Phase1Timeout
    \/ Phase2Rts \/ Phase2Data \/ Phase2Idle \/ Phase2Timeout
    \/ WaitNav
    \/ OnReceive \/ StartListening \/ GetStats \/ PrintStats \/ RadioDecode

SpecApp == Init /\ [][NextApp]_vars

(***************************************************************************)
(* The coin flip with its draw recorded: the calls of Spec without frames  *)
(* received, over more values of P and of urandom.random().                *)
(***************************************************************************)
CoinConfigs ==
    { MACConfig(10, 1, 100, TRUE),
      MACConfig(50, 1, 100, FALSE),
      MACConfig(100, 0, 400, FALSE) }

\* urandom.random() in percent, on both sides of every P of CoinConfigs
CoinDraws == {0, 9, 10, 49, 50, 99}

\* "priority == 'high' or ..." does not call urandom.random() for a high priority
drawn(prio, r) == IF prio = "high" THEN -1 ELSE r

InitCoin ==
    /\ now = 0
    /\ \E cfg \in CoinConfigs : mac_init(cfg)

FlipPhase2 ==
    \E a \in CallArgs, ms \in cad_clear, r \in CoinDraws :
        send_phase2(FALSE, a, ms, r) /\ coin' = drawn(a.priority, r) /\ UNCHANGED codec

FlipPhase1 ==
    \E a \in CallArgs, ms \in cad_clear, r \in CoinDraws :
        send_phase1(a, ms, r) /\ coin' = drawn(a.priority, r) /\ UNCHANGED codec

NextCoin ==
    \/ SendInNav \/ SendCadDefer \/ FlipPhase2 \/ FlipPhase1
    \/ Phase1Idle \/ Phase1Timeout \/ Phase2Idle \/ Phase2Timeout
    \/ WaitNav

SpecCoin == InitCoin /\ [][NextCoin]_vars

(***************************************************************************)
(* The backoffs of one call over every prime offset and every slot count,  *)
(* with no frame received.                                                 *)
(***************************************************************************)
InitBackoff ==
    /\ now = 0
    /\ \E cfg \in NavConfigs : mac_init(cfg)

\* the first call, its coin selecting Phase 2
BackoffRts ==
    \E a \in CallArgs, ms \in cad_clear :
        /\ ncalls = 0
        /\ send_phase2(TRUE, a, ms, 0)
        /\ UNCHANGED <<coin, codec>>

\* the first call, its coin selecting Phase 1
ListenFirst ==
    \E a \in CallArgs, ms \in cad_clear :
        /\ ncalls = 0
        /\ send_phase1(a, ms, 99)
        /\ UNCHANGED <<coin, codec>>

\* "return self._phase2_send_rts(pending_data)" after a silent Phase 1
BackoffRtsAfterListen ==
    /\ timed_out("phase1")
    /\ phase2_send_rts(TRUE, now, stats, pending_data, txlog, ops, radio)
    /\ in_call
    /\ UNCHANGED <<pkt, delivered>>

\* "return self._phase3_send_data(pending_data)" after a silent Phase 2
BackoffData ==
    /\ timed_out("phase2")
    /\ phase3_send_data(TRUE, now, stats, pending_data, txlog, ops)
    /\ in_call
    /\ UNCHANGED <<pkt, delivered>>

NextBackoff ==
    \/ BackoffRts \/ ListenFirst \/ Phase1Idle \/ BackoffRtsAfterListen
    \/ Phase2Idle \/ BackoffData

SpecBackoff == InitBackoff /\ [][NextBackoff]_vars

(***************************************************************************)
(* Decode failures in the listen windows of one call: an empty buffer and  *)
(* frames received with a CRC error.                                       *)
(***************************************************************************)
FirstPhase2 ==
    \E a \in CallArgs, ms \in cad_clear, r \in RandomPercent :
        /\ ncalls = 0
        /\ send_phase2(FALSE, a, ms, r)
        /\ UNCHANGED <<coin, codec>>

FirstPhase1 ==
    \E a \in CallArgs, ms \in cad_clear, r \in RandomPercent :
        /\ ncalls = 0
        /\ send_phase1(a, ms, r)
        /\ UNCHANGED <<coin, codec>>

Phase1CorruptRts == listen_rts("phase1", RxCorruptRts)
Phase1CorruptData == listen_data("phase1", RxCorruptData)
Phase2CorruptRts == listen_rts("phase2", RxCorruptRts)
Phase2CorruptData == listen_data("phase2", RxCorruptData)

NextDecode ==
    \/ FirstPhase2 \/ FirstPhase1
    \/ Phase1Ignored \/ Phase1CorruptRts \/ Phase1CorruptData \/ Phase1Idle \/ Phase1Timeout
    \/ Phase2Ignored \/ Phase2CorruptRts \/ Phase2CorruptData \/ Phase2Idle \/ Phase2Timeout

SpecDecode == Init /\ [][NextDecode]_vars

(***************************************************************************)
(* Registration of the receive callback: the application registers one     *)
(* callback and then another, before or between calls of send_data whose   *)
(* listen windows read DATA frames.                                        *)
(***************************************************************************)
\* on_receive(c) with a callback not registered before
Register ==
    \E c \in Callbacks :
        /\ Idle
        /\ \A i \in 1..Len(registered) : registered[i] # c
        /\ on_receive(c)
        /\ mac_unchanged
        /\ UNCHANGED <<radio, delivered>>

NextSlot ==
    \/ Register
    \/ SendPhase2 \/ SendPhase1
    \/ Phase1Data \/ Phase1Idle \/ Phase1Timeout
    \/ Phase2Data \/ Phase2Idle \/ Phase2Timeout
    \/ WaitNav

SpecSlot == Init /\ [][NextSlot]_vars

(***************************************************************************)
(* The framing code on bytes: the RTS a sender builds (_phase2_send_rts),  *)
(* the tag send_packet puts in front, what read_packet makes of the bytes  *)
(* and the length _enter_nav_from_rts takes from an RTS.                   *)
(***************************************************************************)
\* a payload of L bytes
PayloadOf(L) == [i \in 1..L |-> (L + 31 * i) % 256]

\* the payloads send_data is given: one of every length an RTS can announce
Payloads == { PayloadOf(L) : L \in 0..255 }

\* "rts_packet = bytearray([0xCA, 0xFE, 0xBA, 0xBE, data_len])"
rts_packet(data_len) ==
    { <<202, 254, 186, 190, b>> : b \in rts_length_bytes(data_len) \ {-1} }

\* a send_packet that writes the data without its type
tx_payload_untagged(pkt_type, data) == data

\* send_packet: "payload = bytes([pkt_type]) + data"
tx_payload(pkt_type, data) == <<pkt_type>> \o data

\* read_packet: "pkt_type = data[0]; payload = data[1:]", for payload_len > 0
read_packet(data) == [type |-> data[1], payload |-> SubSeq(data, 2, Len(data))]

\* a decoder that takes the byte before the length byte
rts_data_len_off_by_one(payload) == payload[4]

\* _enter_nav_from_rts: "data_len = rts_packet['payload'][4]"
rts_data_len(payload) == payload[5]

codec_step ==
    UNCHANGED <<config, constructed, now, phase, nav_until, consecutive_navs, stats, pc,
                pending_data, priority, start, poll_interval, idle_count, ret, why,
                ncalls, faults, pkt, txlog, ops, radio, callback, registered, delivered, coin>>

\* send_data(d) is called with one of the payloads
TakePayload ==
    \E d \in Payloads :
        /\ codec.stage = "none"
        /\ codec' = [codec EXCEPT !.stage = "payload", !.data = d]
        /\ codec_step

\* _phase2_send_rts builds the RTS and send_packet writes it to the radio
WriteRts ==
    \E rts \in rts_packet(Len(codec.data)) :
        /\ codec.stage = "payload"
        /\ codec' = [codec EXCEPT !.stage = "rts written",
                                  !.bytes = tx_payload(PKT_TYPE_RTS, rts)]
        /\ codec_step

\* _phase3_send_data: send_packet writes the DATA frame to the radio
WriteData ==
    /\ codec.stage \in {"payload", "rts read"}
    /\ codec' = [codec EXCEPT !.stage = "data written",
                              !.bytes = tx_payload(PKT_TYPE_DATA, codec.data)]
    /\ codec_step

\* a receiver's read_packet reads the bytes that were written
ReadRts ==
    /\ codec.stage = "rts written"
    /\ LET rx == read_packet(codec.bytes) IN
       codec' = [codec EXCEPT !.stage = "rts read", !.type = rx.type,
                              !.data_len = IF rx.type = PKT_TYPE_RTS
                                           THEN rts_data_len(rx.payload) ELSE -1]
    /\ codec_step

NextFrame == TakePayload \/ WriteRts \/ WriteData \/ ReadRts

SpecFrame == Init /\ [][NextFrame]_vars

(***************************************************************************)
(* Properties                                                              *)
(***************************************************************************)
\* a step in which send_data returns (or an exception leaves it)
Returns == pc' = "idle" /\ (pc # "idle" \/ ncalls' # ncalls)

\* the last call has returned value
Returned(value) == pc = "idle" /\ ncalls > 0 /\ ret = value

\* the deferrals that arm NAV: an RTS heard, a DATA frame heard, CAD positive
NavReasons == {"rts", "data", "cad"}

TagsOf(log) == [i \in 1..Len(log) |-> log[i].tag]

\* C1: a call that returns Sent has handed exactly one RTS frame and then exactly
\* one DATA frame, its own payload, to the radio, whichever phase it started in.
C1_SentEmitsRtsThenData ==
    Returned("Sent") =>
        /\ TagsOf(txlog) = <<PKT_TYPE_RTS, PKT_TYPE_DATA>>
        /\ txlog[1].t <= txlog[2].t
        /\ txlog[2].id = pending_data.id

\* a first call that listened for the whole of Phase 1 and then sent both frames
C1_Witness ==
    /\ Returned("Sent")
    /\ ncalls = 1
    /\ Len(txlog) = 2
    /\ txlog[1].t >= phase1_duration

\* C2: a call that returns Deferred has handed no DATA frame to the radio.
C2_DeferredEmitsNoData ==
    Returned("Deferred") => \A i \in 1..Len(txlog) : txlog[i].tag # PKT_TYPE_DATA

\* a call deferred in its Phase 2 listen window, after its RTS went out
C2_Witness ==
    /\ Returned("Deferred")
    /\ why \in {"rts", "data"}
    /\ TagsOf(txlog) = <<PKT_TYPE_RTS>>

\* C3: after a call returns Sent, consecutive_navs is 0.
C3_SentResetsConsecutiveNavs == Returned("Sent") => consecutive_navs = 0

\* a call that returned Sent after an earlier call was deferred into NAV
C3_Witness ==
    /\ Returned("Sent")
    /\ stats.nav_count + stats.cad_detected >= 1
    /\ nav_until > 0

\* C4: a call deferred by an RTS, by a DATA frame or by CAD adds exactly 1 to
\* consecutive_navs and leaves nav_until later than the time of its return.
C4_DeferralCountsAndArms ==
    [][(Returns /\ why' \in NavReasons) =>
          /\ consecutive_navs' = consecutive_navs + 1
          /\ nav_until' > now']_vars

\* the second deferral in a row
C4_Witness ==
    /\ Returned("Deferred")
    /\ why \in NavReasons
    /\ consecutive_navs = 2
    /\ nav_until > now

\* C5: no frame is handed to the radio at a time earlier than nav_until.
C5_NoEmissionBeforeNavUntil == \A i \in 1..Len(txlog) : txlog[i].nav <= txlog[i].t

\* a frame sent once an armed NAV had run out
C5_Witness == \E i \in 1..Len(txlog) : txlog[i].nav > 0 /\ txlog[i].nav <= txlog[i].t

\* C6: the NAV armed from an RTS announcing L bytes lasts at least
\* phase1_duration + W * difs_ms + toa(L), whatever the draws and consecutive_navs.
C6_NavCoversRts ==
    (Returned("Deferred") /\ why = "rts") =>
        nav_until - now >= phase1_duration + (config.backoff_window * config.difs_ms)
                           + calculate_toa(pkt.ll)

\* a NAV armed from an RTS announcing 255 bytes after earlier deferrals
C6_Witness ==
    /\ Returned("Deferred") /\ why = "rts"
    /\ pkt.ll = 255
    /\ consecutive_navs > 2
    /\ config.backoff_window > 0

\* C7: every NAV entry, a CAD-positive deferral included, adds exactly 1 to nav_count.
C7_NavCountOnEveryEntry ==
    [][(Returns /\ why' \in NavReasons) => stats'.nav_count = stats.nav_count + 1]_vars

\* C8: a call in which send_packet timed out returns Deferred.
C8_TxTimeoutDefers ==
    (pc = "idle" /\ \E i \in 1..Len(txlog) : ~txlog[i].ok) => ret = "Deferred"

\* C9: a call with a payload of 256 bytes or more is rejected with PayloadTooLarge
\* and changes nothing; a payload of 255 bytes that is sent goes out as one DATA
\* frame announced by an RTS with length byte 255.
C9_OversizeRejected ==
    [][/\ (ncalls' # ncalls /\ pending_data'.len >= 256) =>
            /\ Returns /\ ret' = "PayloadTooLarge"
            /\ txlog' = <<>>
            /\ UNCHANGED <<now, phase, nav_until, consecutive_navs, stats>>
       /\ (Returns /\ ret' = "Sent" /\ pending_data'.len = 255) =>
            /\ TagsOf(txlog') = <<PKT_TYPE_RTS, PKT_TYPE_DATA>>
            /\ txlog'[1].ll = 255
            /\ txlog'[2].len = 255]_vars

\* the configurations the specification calls valid
valid_config(cfg) ==
    /\ cfg.backoff_window >= 0
    /\ cfg.phase2_probability > 0 /\ cfg.phase2_probability <= 100
    /\ cfg.difs_ms > 0

\* C10: a MAC is never constructed with an invalid configuration.
C10_InvalidConfigRejected == constructed => valid_config(config)

\* C11: a DATA packet the radio decodes while no send is in progress reaches the
\* registered callback: it never leaves the radio without having been delivered.
C11_IdlePacketsDelivered ==
    [][(callback # 0 /\ radio.held # NoPacket /\ radio'.held # radio.held) =>
          \E i \in 1..Len(delivered') : delivered'[i].payload = radio.held]_vars

\* a step of a listen window in which a frame is read
FrameRead ==
    /\ pc \in {"phase1", "phase2"}
    /\ \/ pkt' # pkt
       \/ stats'.rx_rts + stats'.rx_data > stats.rx_rts + stats.rx_data

\* C12: whatever frame a listen window reads, the call goes on or returns Sent or
\* Deferred; no exception leaves send().
C12_NoFrameAborts ==
    [][FrameRead => (pc' \in {"phase1", "phase2"} \/ ret' \in {"Sent", "Deferred"})]_vars

\* a listen window never runs longer than its duration and one polling interval
C13_ListenBounded ==
    pc \in {"phase1", "phase2"} => now - start < listen_duration + POLL_SLOWEST

\* C13: every call ends: a listen window is over within a time derived from W,
\* difs_ms and toa(5), and the call of a payload the RTS can announce returns Sent
\* or Deferred whatever the radio reports.
C13_SendTerminates ==
    /\ C13_ListenBounded
    /\ (pc = "idle" /\ ncalls > 0 /\ pending_data.len <= 255) => ret \in {"Sent", "Deferred"}

\* C14: with a wrapping tick counter, once NAV is armed for a duration d, in_nav()
\* holds exactly until d milliseconds have passed, wherever the counter stood.
C14_NavWrapSafe == armed => (in_nav(now) <=> now < nav_deadline)

\* the multiplier the specification gives for k earlier deferrals, in tenths
ClaimedMultiplier10(k) ==
    IF k = 0 THEN 10 ELSE IF k >= 5 THEN 25 ELSE <<13, 16, 19, 22>>[k]

\* the durations u whose product with the claimed multiplier, cut to an integer, is dur
Unscaled(dur, k) ==
    LET m == ClaimedMultiplier10(k)
    IN  {u \in ((dur * 10) \div m)..((dur * 10 + 9) \div m) : (u * m) \div 10 = dur}

\* u is a duration the deferral path named by reason draws before scaling
DrawnUnscaled(reason, u) ==
    \E p \in PrimeOffset(TRUE) :
        CASE reason = "rts" ->
                LET x == nav_base(config, pkt.ll) + p
                IN  u - x \in jitter_lo(x)..jitter_hi(x)
          [] reason = "data" ->
                u - p \in ((calculate_toa(255) * 8) \div 10)..((calculate_toa(255) * 12) \div 10)
          [] reason = "cad" ->
                u - p \in phase1_duration..(phase1_duration * 3)

\* C15: in each of the three deferral paths the NAV lasts the drawn duration times
\* 1 for k = 0, times 1.3, 1.6, 1.9, 2.2 for k = 1..4 and times 2.5 for every k >= 5,
\* where k is consecutive_navs before the increment.
C15_MultiplierSaturates ==
    armed =>
        \E u \in Unscaled(nav_until - ticks_ms(now), consecutive_navs - 1) :
            DrawnUnscaled(why, u)

\* a CAD deferral after ten deferrals in a row
C15_Witness ==
    /\ armed
    /\ why = "cad"
    /\ consecutive_navs = 11

\* C16: consecutive_navs goes down only in the step in which send_data returns Sent;
\* a Deferred return, the expiry of NAV, start_listening, on_receive and get_stats
\* never lower it.
C16_OnlySentLowersCounter ==
    [][consecutive_navs' < consecutive_navs => (Returns /\ ret' = "Sent")]_vars

\* a deferred call followed by a call that returned Sent, with a callback registered
\* and the radio put into continuous receive in between
C16_Witness ==
    /\ Returned("Sent")
    /\ ncalls = 2
    /\ consecutive_navs = 0
    /\ stats.nav_count + stats.cad_detected > 0
    /\ callback # 0

\* C17: a call that is neither in NAV nor deferred by CAD enters Phase 1 exactly when
\* its priority is not high and the draw r is not below P; with P = 1.0 and with a
\* high priority Phase 1 is never entered.
C17_CoinFlip ==
    [][(ncalls' = ncalls + 1 /\ ~in_nav(now) /\ stats'.cad_detected = stats.cad_detected) =>
          /\ pc' = "phase1" <=>
                ~(priority' = "high" \/ (coin' # -1 /\ coin' < config.phase2_probability))
          /\ config.phase2_probability = 100 => pc' # "phase1"
          /\ priority' = "high" => pc' # "phase1"]_vars

\* Phase 1 entered on a draw equal to P
C17_Witness ==
    /\ pc = "phase1"
    /\ phase = PHASE_1_LISTEN
    /\ coin = config.phase2_probability

\* the backoffs the specification allows
ClaimedBackoffs ==
    {n * config.difs_ms + p : n \in 0..config.backoff_window, p \in {5, 7, 11, 13, 17}}

\* the time at which a step that sends a frame enters _phase2_send_rts or
\* _phase3_send_data: after the CAD cycle when the step is the entry of a call
PhaseEntered ==
    IF pc = "idle" THEN now + (IF config.use_cad THEN CAD_MS ELSE 0) ELSE now

\* C18: the sleep before every RTS and before every DATA frame is n * difs_ms + p with n
\* in 0..W and p one of 5, 7, 11, 13, 17; with W = 0 it is exactly a prime offset, and
\* the call goes on to its listen window or returns Sent.
C18_BackoffInRange ==
    [][(txlog' # txlog /\ txlog' # <<>>) =>
          LET slept == txlog'[Len(txlog')].t - PhaseEntered IN
          /\ slept \in ClaimedBackoffs
          /\ config.backoff_window = 0 =>
                /\ slept \in {5, 7, 11, 13, 17}
                /\ pc' = "phase2" \/ (Returns /\ ret' = "Sent")]_vars

\* a call with W = 0 that slept twice, sent both frames and returned Sent
C18_Witness ==
    /\ Returned("Sent")
    /\ config.backoff_window = 0
    /\ stats.backoff_count = 2
    /\ TagsOf(txlog) = <<PKT_TYPE_RTS, PKT_TYPE_DATA>>

\* a step that is the entry of a send_data call
Called == ncalls' = ncalls + 1

\* C19: a call made while in_nav() holds returns Deferred without any radio operation
\* (no CAD, no start_rx, no frame) and leaves nav_until, consecutive_navs, phase and
\* the statistics as they were.
C19_InNavIsInert ==
    [][(Called /\ in_nav(now)) =>
          /\ Returns /\ ret' = "Deferred"
          /\ ops' = <<>>
          /\ txlog' = <<>>
          /\ UNCHANGED <<nav_until, consecutive_navs, phase, stats, radio>>]_vars

\* a call answered from inside a NAV that an earlier deferral armed
C19_Witness ==
    /\ Returned("Deferred")
    /\ why = "in_nav"
    /\ ncalls = 2
    /\ ops = <<>>
    /\ consecutive_navs = 1
    /\ in_nav(now)

\* the number of CAD cycles among the radio operations o
CadCycles(o) == Cardinality({i \in 1..Len(o) : o[i] = "cad"})

\* C20: with use_cad a call outside NAV first runs exactly one CAD cycle. If it detects
\* activity the call returns Deferred, cad_detected grows by one, no frame is sent, no
\* listen window is opened and NAV is armed for at least phase1_duration; if not, the
\* call goes on to the coin flip. Without use_cad no CAD cycle is ever run.
C20_CadFirst ==
    [][/\ (Called /\ ~in_nav(now) /\ config.use_cad) =>
            /\ ops' # <<>> /\ Head(ops') = "cad"
            /\ CadCycles(ops') = 1
            /\ stats'.cad_detected # stats.cad_detected =>
                  /\ Returns /\ ret' = "Deferred" /\ why' = "cad"
                  /\ stats'.cad_detected = stats.cad_detected + 1
                  /\ txlog' = <<>>
                  /\ ops' = <<"cad">>
                  /\ radio'.rx = "off"
                  /\ nav_until' - ticks_ms(now') >= phase1_duration
            /\ stats'.cad_detected = stats.cad_detected =>
                  /\ phase' \in {PHASE_1_LISTEN, PHASE_2_RTS}
                  /\ pc' = "phase1" \/ Len(ops') > 1 \/ ret' = "Error"
       /\ config.use_cad => CadCycles(ops') <= 1
       /\ ~config.use_cad => CadCycles(ops') = 0]_vars

\* a call deferred by a positive CAD, NAV armed for at least phase1_duration
C20_Witness ==
    /\ Returned("Deferred")
    /\ why = "cad"
    /\ ops = <<"cad">>
    /\ stats.cad_detected = 1
    /\ nav_until - ticks_ms(now) >= phase1_duration

\* a step of a listen loop that reads a DATA frame
DataRead ==
    /\ pc \in {"phase1", "phase2"}
    /\ \/ Returns /\ why' = "data"
       \/ stats'.rx_data # stats.rx_data

\* C21: a DATA frame read in the Phase 1 or Phase 2 listen window is handed to the
\* registered callback exactly once, with its payload, rssi and snr, and arms NAV:
\* rx_data grows by one, _enter_nav_random runs and the call returns Deferred.
C21_DataDeliveredAndNav ==
    [][DataRead =>
          /\ pkt'.type = PKT_TYPE_DATA
          /\ stats'.rx_data = stats.rx_data + 1
          /\ delivered' = IF callback = 0 THEN delivered
                          ELSE Append(delivered, [cb |-> callback, payload |-> pkt',
                                                  rssi |-> RSSI, snr |-> SNR])
          /\ stats'.nav_count = stats.nav_count + 1
          /\ consecutive_navs' = consecutive_navs + 1
          /\ phase' = PHASE_NAV
          /\ nav_until' - ticks_ms(now') \in nav_random(TRUE, consecutive_navs)
          /\ Returns /\ ret' = "Deferred"]_vars

\* a call deferred by a DATA frame that the registered callback received once
C21_Witness ==
    /\ Returned("Deferred")
    /\ why = "data"
    /\ callback = 1
    /\ stats.rx_data = 1
    /\ delivered = <<[cb |-> 1, payload |-> pkt, rssi |-> RSSI, snr |-> SNR]>>

\* a step of a listen loop in which rx_done() was true: the loop's condition holds
\* and the step is not the one that counts an idle poll
PacketRead ==
    /\ pc \in {"phase1", "phase2"}
    /\ ticks_diff(ticks_ms(now), ticks_ms(start)) < listen_duration
    /\ idle_count' # idle_count + 1

\* nothing of the MAC's bookkeeping moves and the listen loop goes on
SilentlyDropped ==
    /\ UNCHANGED <<stats, nav_until, consecutive_navs, phase, delivered>>
    /\ pc' = pc

\* the empty-buffer half of C22: a read that returns None is silently dropped
C22_EmptyDropped ==
    [][(PacketRead /\ pkt' = NoPacket) => SilentlyDropped]_vars

\* C22: a decode failure in a listen window (an empty buffer or a CRC error) is
\* silently dropped: no counter changes, NAV is not armed, consecutive_navs is
\* unchanged and the listen window goes on until its timeout.
C22_DecodeFailureDropped ==
    [][(PacketRead /\ (pkt' = NoPacket \/ ~pkt'.crc)) => SilentlyDropped]_vars

\* the frames handed to the radio in a step
NewFrames ==
    IF Called THEN txlog' ELSE SubSeq(txlog', Len(txlog) + 1, Len(txlog'))

\* C23: there is no queue. Frames are emitted only inside a send_data call, and every
\* DATA frame carries the payload of the call that is running and makes that call
\* return Sent: DATA frames go out in the order of the calls that returned Sent, and
\* the payload of a call that returned Deferred is never emitted later.
C23_NoQueue ==
    [][/\ (Idle /\ ~Called) => txlog' = txlog
       /\ \A i \in 1..Len(NewFrames) :
             NewFrames[i].tag = PKT_TYPE_DATA =>
                /\ NewFrames[i].id = ncalls'
                /\ NewFrames[i].len = pending_data'.len
                /\ Returns /\ ret' = "Sent"]_vars

\* the second call's payload on the air after the first call was deferred
C23_Witness ==
    /\ Returned("Sent")
    /\ ncalls = 2
    /\ stats.nav_count + stats.cad_detected > 0
    /\ stats.tx_data = 1
    /\ txlog[Len(txlog)].tag = PKT_TYPE_DATA
    /\ txlog[Len(txlog)].id = 2

\* a step of a call that is neither in NAV nor deferred by a positive CAD
QuietStep ==
    /\ Called \/ pc # "idle"
    /\ ~(Called /\ in_nav(now))
    /\ stats'.cad_detected = stats.cad_detected

\* the frame handed to the radio in a step has the tag tag
Emits(tag) == Len(NewFrames) = 1 /\ NewFrames[1].tag = tag

\* C24: with no frame decoded, a call that is not in NAV and whose CAD is not positive
\* returns Sent (payload of at most 255 bytes): the RTS goes out at the entry of the
\* call or when a Phase 1 listen of phase1_duration has run out, the DATA frame when
\* the second listen of phase1_duration has run out, in this order, and neither
\* nav_count nor consecutive_navs grows.
C24_QuietChannelSends ==
    [][QuietStep =>
          /\ Emits(PKT_TYPE_RTS) =>
                /\ Called \/ pc = "phase1"
                /\ pc = "phase1" => now - start >= phase1_duration
                /\ pc' = "phase2"
                /\ TagsOf(txlog') = <<PKT_TYPE_RTS>>
          /\ Emits(PKT_TYPE_DATA) =>
                /\ pc = "phase2"
                /\ now - start >= phase1_duration
                /\ TagsOf(txlog') = <<PKT_TYPE_RTS, PKT_TYPE_DATA>>
          /\ (Returns /\ pending_data'.len <= 255) =>
                /\ ret' = "Sent"
                /\ Emits(PKT_TYPE_DATA)
          /\ stats'.nav_count = stats.nav_count
          /\ consecutive_navs' <= consecutive_navs]_vars

\* a call that listened twice on a quiet channel and sent both frames
C24_Witness ==
    /\ Returned("Sent")
    /\ ncalls = 1
    /\ ops = <<"cad", "start_rx", "send_packet", "start_rx", "send_packet">>
    /\ TagsOf(txlog) = <<PKT_TYPE_RTS, PKT_TYPE_DATA>>
    /\ txlog[2].t - txlog[1].t >= phase1_duration
    /\ stats.nav_count = 0
    /\ consecutive_navs = 0

Grows(f) == stats'[f] - stats[f]

\* 1 if the step is the event e, else 0
Once(e) == IF e THEN 1 ELSE 0

\* the step is a call that ends after a positive CAD
CadPositive == Called /\ ~in_nav(now) /\ Returns /\ why' = "cad"

C26_FramesTagged ==
    /\ codec.stage = "rts written" =>
          codec.bytes = <<1, 202, 254, 186, 190, Len(codec.data)>>
    /\ codec.stage = "data written" =>
          /\ Len(codec.bytes) = Len(codec.data) + 1
          /\ codec.bytes[1] = 2
          /\ \A i \in 1..Len(codec.data) : codec.bytes[i + 1] = codec.data[i]

\* the DATA frame of a payload of 255 bytes has been written
C26_Witness ==
    /\ codec.stage = "data written"
    /\ Len(codec.data) = 255
    /\ Len(codec.bytes) = 256

\* C27: for every L in 0..255 the RTS built for a payload of L bytes, tagged by
\* send_packet and read back by read_packet, is classified as an RTS and decodes to
\* data_len = L.
C27_RtsRoundTrip ==
    codec.stage = "rts read" =>
        /\ codec.type = PKT_TYPE_RTS
        /\ codec.data_len = Len(codec.data)

\* the RTS for 255 bytes has been read back
C27_Witness ==
    /\ codec.stage = "rts read"
    /\ Len(codec.data) = 255
    /\ codec.data_len = 255

(***************************************************************************)
(* C28: no statistics counter ever decreases, whatever the application     *)
(* calls (send, start_listening, on_receive, get_stats, print_stats) and   *)
(* whatever the radio hears.                                               *)
(***************************************************************************)
C28_CountersMonotone ==
    [][\A f \in DOMAIN stats : stats'[f] >= stats[f]]_vars

\* the application has registered, listens and has sent, heard and deferred
C28_Witness ==
    /\ Idle
    /\ callback # 0
    /\ radio.rx = "continuous"
    /\ stats.tx_data > 0
    /\ stats.rx_data > 0
    /\ stats.nav_count > 0

(***************************************************************************)
(* C29: invariant I1 as stated: in every reachable state, phase = Nav      *)
(* implies nav_until > now.                                                *)
(***************************************************************************)
C29_PhaseNavImpliesInNav ==
    phase = PHASE_NAV => nav_until > ticks_ms(now)

\* C29 as the code has it: every step that leaves phase = Nav leaves nav_until > now,
\* except the passing of time between calls in a state that had phase = Nav and the
\* same nav_until already; a call that gets past the NAV check never leaves phase = Nav
\* with the deadline behind it
C29_PhaseLagsUntilNextSend ==
    [][phase' = PHASE_NAV =>
          \/ nav_until' > ticks_ms(now')
          \/ /\ phase = PHASE_NAV
             /\ nav_until' = nav_until
             /\ ~Called
             /\ pc = "idle" /\ pc' = "idle"]_vars

\* the deadline of a NAV armed by a deferral has passed and phase still says Nav
C29_Witness ==
    /\ phase = PHASE_NAV
    /\ consecutive_navs > 0
    /\ Idle
    /\ ~(nav_until > ticks_ms(now))

(***************************************************************************)
(* C30: the receive callback is a single slot: once on_receive(c1) has     *)
(* been followed by on_receive(c2), a DATA frame read by the MAC invokes   *)
(* c2 exactly once and never c1 (and likewise the one callback registered  *)
(* last, whatever was registered before it).                               *)
(***************************************************************************)
C30_SingleSlot ==
    [][(DataRead /\ registered # <<>>) =>
          delivered' = Append(delivered, Invocation(registered[Len(registered)], pkt'))]_vars

\* c1 got the frame read before on_receive(c2) and c2, alone, the frame read after it
C30_Witness ==
    /\ Len(registered) = 2
    /\ Len(delivered) = 2
    /\ delivered[1].cb = registered[1]
    /\ delivered[2].cb = registered[2]

\* every step adds to nav_count what it adds to rx_rts and rx_data together, unless it
\* leaves send_data by the IndexError of a short RTS
C31_NavCountedUnlessAborted ==
    [][(Returns /\ why' = "IndexError") \/
       stats'.nav_count - stats.nav_count =
           (stats'.rx_rts + stats'.rx_data) - (stats.rx_rts + stats.rx_data)]_vars

(***************************************************************************)
(* C31: once the send() calls made so far have returned, nav_count equals  *)
(* rx_rts + rx_data: each RTS or DATA frame counted as received has armed  *)
(* exactly one NAV and NAV is counted for no other reason.                 *)
(***************************************************************************)
C31_NavCountIsFramesHeard ==
    (pc = "idle" /\ ret \in {"Sent", "Deferred"}) =>
        stats.nav_count = stats.rx_rts + stats.rx_data

(***************************************************************************)
(* C32: nav_until never moves backwards (the clock not wrapping): a step   *)
(* that writes nav_until belongs to a call that found in_nav() false, it   *)
(* sets a value strictly greater than the previous one and ahead of the    *)
(* clock, and a NAV that is still running is neither shortened nor         *)
(* extended.                                                               *)
(***************************************************************************)
C32_NavUntilOnlyForward ==
    [][/\ nav_until' # nav_until =>
             /\ ~in_nav(now)
             /\ pc # "idle" \/ Called
             /\ nav_until' > nav_until
             /\ nav_until' > ticks_ms(now')
       /\ in_nav(now) => nav_until' = nav_until]_vars

\* a second NAV is running, armed by a call made after the first one ran out
C32_Witness ==
    /\ Returned("Deferred") /\ why \in NavReasons
    /\ consecutive_navs >= 2
    /\ nav_until > phase1_duration
    /\ in_nav(now)

\* what a call that returns leaves in phase: Idle after Sent, Nav after a deferral that
\* armed NAV, the value it found after the return taken in NAV
C33_PhaseAfterReturn ==
    [][(Returns /\ ret' \in {"Sent", "Deferred"}) =>
          /\ ret' = "Sent" => phase' = PHASE_IDLE
          /\ (ret' = "Deferred" /\ why' \in NavReasons) => phase' = PHASE_NAV
          /\ (ret' = "Deferred" /\ why' = "in_nav") => (Called /\ phase' = phase)
          /\ ret' = "Deferred" => why' \in NavReasons \cup {"in_nav"}]_vars

(***************************************************************************)
(* C33: whenever no send() is executing, phase is Idle or Nav; it is never *)
(* left at Phase1Listen, Phase2Rts or Phase3Data.                          *)
(***************************************************************************)
C33_PhaseIdleOrNavBetweenCalls ==
    pc = "idle" => phase \in {PHASE_IDLE, PHASE_NAV}

\* the largest Phase 3 backoff of a sender: W slots and the largest prime offset
MaxBackoff(cfg) == (cfg.backoff_window * cfg.difs_ms) + PRIME_OFFSETS[Len(PRIME_OFFSETS)]

(***************************************************************************)
(* C34: the NAV armed from an RTS announcing L bytes covers what the       *)
(* sender still has to do: its listen window after the RTS                 *)
(* (phase1_duration), its largest Phase 3 backoff (W * difs_ms + 17) and   *)
(* the air time of its DATA frame (toa(L)), whatever the draws of prime    *)
(* offset and jitter and whatever consecutive_navs.                        *)
(***************************************************************************)
C34_NavCoversSenderSchedule ==
    (Returned("Deferred") /\ why = "rts") =>
        nav_until - now >= phase1_duration + MaxBackoff(config) + calculate_toa(pkt.ll)

\* the shortest NAV an RTS can arm: W = 0, an empty payload announced, no earlier
\* deferral, the smallest prime offset and the smallest jitter
C34_Witness ==
    /\ Returned("Deferred") /\ why = "rts"
    /\ config.backoff_window = 0
    /\ pkt.ll = 0
    /\ consecutive_navs = 1
    /\ nav_until - now =
           LET d == nav_base(config, 0) + PRIME_OFFSETS[1] IN d + jitter_lo(d)

(***************************************************************************)
(* C35: a high priority skips the Phase 1 listen and nothing else. A       *)
(* high-priority call made while in_nav() holds returns Deferred without   *)
(* any radio operation; outside NAV with use_cad it runs the CAD cycle     *)
(* first, and a positive CAD defers it through _defer_random with no frame *)
(* sent; when neither stops it, it goes to Phase 2 without listening.      *)
(***************************************************************************)
C35_HighPriorityRespectsNavAndCad ==
    [][(Called /\ priority' = "high") =>
          /\ in_nav(now) =>
                /\ Returns /\ ret' = "Deferred"
                /\ ops' = <<>> /\ txlog' = <<>>
                /\ UNCHANGED <<nav_until, consecutive_navs, stats>>
          /\ (~in_nav(now) /\ config.use_cad) =>
                /\ ops' # <<>> /\ Head(ops') = "cad"
                /\ stats'.cad_detected # stats.cad_detected =>
                      /\ Returns /\ ret' = "Deferred"
                      /\ ops' = <<"cad">> /\ txlog' = <<>>
                      /\ consecutive_navs' = consecutive_navs + 1
                      /\ phase' = PHASE_NAV
                      /\ nav_until' - ticks_ms(now') >= phase1_duration
          /\ (~in_nav(now) /\ stats'.cad_detected = stats.cad_detected) =>
                /\ pc' # "phase1"
                /\ \E i \in 1..Len(txlog') : txlog'[i].tag = PKT_TYPE_RTS]_vars

\* a high-priority call answered from inside a NAV that a positive CAD armed
C35_Witness ==
    /\ Returned("Deferred")
    /\ priority = "high"
    /\ why = "in_nav"
    /\ stats.cad_detected > 0
    /\ ops = <<>> /\ txlog = <<>>
    /\ in_nav(now)

====
